---- MODULE Spec2Model ----
(***************************************************************************)
(* Brute-force burst detector of src/report.py: main() groups the failed   *)
(* log lines by origin, brute_force() clusters each origin's timestamps,   *)
(* main() then ranks the origins.  Timestamps are seconds since the start  *)
(* of the assumed year; indices i, j, n are 0-based as in the Python code. *)
(***************************************************************************)
EXTENDS Integers, Sequences, FiniteSets, TLC

(* ---- bounds of the model ---- *)
MaxLines == 3
MaxThreshold == 4

(* ---- program constants ---- *)
SecondsPerMinute == 60
MainMaxMinutes == 10
MainThreshold == 5

None == "None"
IPs == {"a", "b"}
Times == {0, 60, 120}
Minutes == {-1, 0, 1, MainMaxMinutes}
Thresholds == (0..MaxThreshold) \cup {MainThreshold}
EventTypes == {"failed", "accepted", "other"}

VARIABLES
    pc,                 \* where the program is
    lines_read,         \* log lines consumed by main's read loop
    per_ip_timestamps,  \* dict values: ip -> list of timestamps
    ip_order,           \* dict keys in insertion order
    max_minutes,        \* brute_force argument
    threshold,          \* brute_force argument
    passed_in,          \* the timeline as it was when brute_force was called
    sus_incidents,      \* list of incident dicts
    ranges,             \* for each incident, the <<i, j>> it was emitted at
    k,                  \* position of the for loop in the dict (0-based)
    n, i, j,            \* locals of brute_force
    summary,            \* main: ordered dict ip -> total, as a list of entries
    top_attackers       \* main: the sorted (ip, total) list

vars == <<pc, lines_read, per_ip_timestamps, ip_order, max_minutes, threshold,
          passed_in, sus_incidents, ranges, k, n, i, j, summary, top_attackers>>

(* ---- helpers ---- *)

\* times[idx] with a 0-based index
At(times, idx) == times[idx + 1]

\* datetime.isoformat(): the timestamp rendered as fixed-width fields
\* <<day of year, hour, minute, second>>
isoformat(t) ==
    <<t \div 86400, (t \div 3600) % 24, (t \div 60) % 60, t % 60>>

\* timedelta(minutes=max_minutes), in seconds
window(mm) == mm * SecondsPerMinute

\* the ascending arrangement of s: position m holds the value v with fewer
\* than m elements below it and at least m elements not above it
SortedAsc(s) ==
    [m \in 1..Len(s) |->
        CHOOSE v \in {s[q] : q \in 1..Len(s)} :
            /\ Cardinality({q \in 1..Len(s) : s[q] < v}) < m
            /\ m <= Cardinality({q \in 1..Len(s) : s[q] <= v})]

\* the sort taken descending
sort_descending(times) ==
    [m \in 1..Len(times) |-> SortedAsc(times)[Len(times) + 1 - m]]

\* the sort left out
sort_omitted(times) == times

\* list.sort() on a list of timestamps: ascending, in place
sort(times) == SortedAsc(times)

\* the window bound taken exclusive
CanExpand_exclusive(times, ii, jj, nn, mm) ==
    /\ jj + 1 < nn
    /\ At(times, jj + 1) - At(times, ii) < window(mm)

\* the inner while condition: j + 1 < n and times[j+1] - times[i] <= window
CanExpand(times, ii, jj, nn, mm) ==
    /\ jj + 1 < nn
    /\ At(times, jj + 1) - At(times, ii) <= window(mm)

\* count off by one
count_off_by_one(ii, jj) == jj - ii

\* count = j - i + 1
count(ii, jj) == jj - ii + 1

\* the comparison inverted
MeetsThreshold_inverted(c, th) == c <= th

\* the comparison taken strict
MeetsThreshold_strict(c, th) == c > th

\* if count >= threshold
MeetsThreshold(c, th) == c >= th

\* the dict appended to sus_incidents
Incident(ip, times, ii, jj) ==
    [ip |-> ip, count |-> count(ii, jj),
     first |-> isoformat(At(times, ii)), last |-> isoformat(At(times, jj))]

\* i += 1 in both branches
NextI_always_one(ii, jj, hit) == ii + 1

\* i left alone in the else branch
NextI_stuck(ii, jj, hit) == IF hit THEN jj + 1 ELSE ii

\* i = j + 1 after an incident, i += 1 otherwise
NextI(ii, jj, hit) == IF hit THEN jj + 1 ELSE ii + 1

\* summary[inc["ip"]] = summary.get(inc["ip"], 0) + inc["count"] on an
\* insertion-ordered dict, kept as a list of [ip, total] entries
AddCount(summ, inc) ==
    IF \E m \in 1..Len(summ) : summ[m].ip = inc.ip
    THEN [m \in 1..Len(summ) |->
             IF summ[m].ip = inc.ip
             THEN [summ[m] EXCEPT !.total = @ + inc.count]
             ELSE summ[m]]
    ELSE Append(summ, [ip |-> inc.ip, total |-> inc.count])

\* for inc in sus_incidents: summary[...] = ...
RECURSIVE Summarize(_)
Summarize(incs) ==
    IF incs = <<>> THEN <<>>
    ELSE AddCount(Summarize(SubSeq(incs, 1, Len(incs) - 1)), incs[Len(incs)])

\* {ip: len(times) for ip, times in per_ip_timestamps.items()}
RawCounts(order, per) ==
    [m \in 1..Len(order) |-> [ip |-> order[m], total |-> Len(per[order[m]])]]

\* the summary main ranks: incident totals, or the raw counts when there is
\* no incident but there are failed attempts
BuildSummary(incs, order, per) ==
    LET s == Summarize(incs)
    IN  IF s = <<>> /\ order # <<>> THEN RawCounts(order, per) ELSE s

\* an unstable descending sort: equal totals come out reversed
InsertDesc_unstable(s, x) ==
    LET p == Cardinality({m \in 1..Len(s) : s[m].total > x.total})
    IN  SubSeq(s, 1, p) \o <<x>> \o SubSeq(s, p + 1, Len(s))

\* sorted(..., key=lambda x: x[1], reverse=True): a stable sort, an entry
\* goes behind every earlier entry whose total is not smaller
InsertDesc(s, x) ==
    LET p == Cardinality({m \in 1..Len(s) : s[m].total >= x.total})
    IN  SubSeq(s, 1, p) \o <<x>> \o SubSeq(s, p + 1, Len(s))

RECURSIVE SortedDesc(_)
SortedDesc(s) ==
    IF s = <<>> THEN <<>>
    ELSE InsertDesc(SortedDesc(SubSeq(s, 1, Len(s) - 1)), s[Len(s)])

sorted_by_total(items) == SortedDesc(items)

(* ---- brute_force as a function of its arguments ---- *)

\* where the inner while loop leaves j when it starts at jj
RECURSIVE ClusterEnd(_, _, _, _, _)
ClusterEnd(ts, ii, jj, nn, mm) ==
    IF CanExpand(ts, ii, jj, nn, mm) THEN ClusterEnd(ts, ii, jj + 1, nn, mm) ELSE jj

\* the outer while loop from i = ii on, for one origin's sorted list
RECURSIVE DetectFrom(_, _, _, _, _)
DetectFrom(addr, ts, ii, mm, th) ==
    IF ii < Len(ts)
    THEN LET jj == ClusterEnd(ts, ii, ii, Len(ts), mm)
             hit == MeetsThreshold(count(ii, jj), th)
         IN  (IF hit THEN <<Incident(addr, ts, ii, jj)>> ELSE <<>>)
             \o DetectFrom(addr, ts, NextI(ii, jj, hit), mm, th)
    ELSE <<>>

\* the for loop over the dict, from position kk on
RECURSIVE brute_force(_, _, _, _, _)
brute_force(order, per, kk, mm, th) ==
    IF kk < Len(order)
    THEN DetectFrom(order[kk + 1], sort(per[order[kk + 1]]), 0, mm, th)
         \o brute_force(order, per, kk + 1, mm, th)
    ELSE <<>>

(* ---- state ---- *)

ip == ip_order[k + 1]
times == per_ip_timestamps[ip]

Init ==
    /\ pc = "read"
    /\ lines_read = 0
    /\ per_ip_timestamps = [a \in IPs |-> <<>>]
    /\ ip_order = <<>>
    /\ max_minutes = MainMaxMinutes
    /\ threshold = MainThreshold
    /\ passed_in = [a \in IPs |-> <<>>]
    /\ sus_incidents = <<>>
    /\ ranges = <<>>
    /\ k = 0
    /\ n = 0
    /\ i = 0
    /\ j = 0
    /\ summary = <<>>
    /\ top_attackers = <<>>

\* main: one pass of "for line in fh" with the parse result (ts, ip, event);
\* has_ts is FALSE when parse_auth_line returned ts = None
ReadLine(has_ts, ts, addr, event) ==
    /\ pc = "read"
    /\ lines_read < MaxLines
    /\ lines_read' = lines_read + 1
    /\ IF has_ts /\ addr # None /\ event = "failed"
       THEN /\ per_ip_timestamps' =
                  [per_ip_timestamps EXCEPT ![addr] = Append(@, ts)]
            /\ ip_order' = IF per_ip_timestamps[addr] = <<>>
                           THEN Append(ip_order, addr) ELSE ip_order
       ELSE UNCHANGED <<per_ip_timestamps, ip_order>>
    /\ UNCHANGED <<pc, max_minutes, threshold, passed_in, sus_incidents, ranges,
                   k, n, i, j, summary, top_attackers>>

\* brute_force(per_ip_timestamps, max_minutes=mm, threshold=th) is entered
CallBruteForce(mm, th) ==
    /\ pc = "read"
    /\ max_minutes' = mm
    /\ threshold' = th
    /\ passed_in' = per_ip_timestamps
    /\ sus_incidents' = <<>>
    /\ ranges' = <<>>
    /\ k' = 0
    /\ pc' = "for_ip"
    /\ UNCHANGED <<lines_read, per_ip_timestamps, ip_order, n, i, j,
                   summary, top_attackers>>

\* for ip, times in per_ip_timestamps.items(): times.sort(); n = len(times); i = 0
ForIp ==
    /\ pc = "for_ip"
    /\ k < Len(ip_order)
    /\ per_ip_timestamps' = [per_ip_timestamps EXCEPT ![ip] = sort(@)]
    /\ n' = Len(sort(times))
    /\ i' = 0
    /\ pc' = "while_i"
    /\ UNCHANGED <<lines_read, ip_order, max_minutes, threshold, passed_in,
                   sus_incidents, ranges, k, j, summary, top_attackers>>

\* while i < n: j = i      (or the loop ends and the for loop moves on)
WhileOuter ==
    /\ pc = "while_i"
    /\ IF i < n
       THEN /\ j' = i
            /\ pc' = "while_j"
            /\ k' = k
       ELSE /\ k' = k + 1
            /\ pc' = "for_ip"
            /\ j' = j
    /\ UNCHANGED <<lines_read, per_ip_timestamps, ip_order, max_minutes,
                   threshold, passed_in, sus_incidents, ranges, n, i,
                   summary, top_attackers>>

\* while j + 1 < n and (times[j + 1] - times[i]) <= window: j += 1
WhileInner ==
    /\ pc = "while_j"
    /\ IF CanExpand(times, i, j, n, max_minutes)
       THEN /\ j' = j + 1
            /\ pc' = pc
       ELSE /\ j' = j
            /\ pc' = "if_count"
    /\ UNCHANGED <<lines_read, per_ip_timestamps, ip_order, max_minutes,
                   threshold, passed_in, sus_incidents, ranges, k, n, i,
                   summary, top_attackers>>

\* count = j - i + 1; if count >= threshold: append, i = j + 1; else: i += 1
IfCount ==
    /\ pc = "if_count"
    /\ LET hit == MeetsThreshold(count(i, j), threshold)
       IN  /\ sus_incidents' = IF hit
                               THEN Append(sus_incidents, Incident(ip, times, i, j))
                               ELSE sus_incidents
           /\ ranges' = IF hit THEN Append(ranges, <<i, j>>) ELSE ranges
           /\ i' = NextI(i, j, hit)
    /\ pc' = "while_i"
    /\ UNCHANGED <<lines_read, per_ip_timestamps, ip_order, max_minutes,
                   threshold, passed_in, k, n, j, summary, top_attackers>>

\* return sus_incidents
Return ==
    /\ pc = "for_ip"
    /\ k >= Len(ip_order)
    /\ pc' = "returned"
    /\ UNCHANGED <<lines_read, per_ip_timestamps, ip_order, max_minutes,
                   threshold, passed_in, sus_incidents, ranges, k, n, i, j,
                   summary, top_attackers>>

\* main after brute_force returned: summary, fallback, top_attackers
Aggregate ==
    /\ pc = "returned"
    /\ summary' = BuildSummary(sus_incidents, ip_order, per_ip_timestamps)
    /\ top_attackers' =
           sorted_by_total(BuildSummary(sus_incidents, ip_order, per_ip_timestamps))
    /\ pc' = "done"
    /\ UNCHANGED <<lines_read, per_ip_timestamps, ip_order, max_minutes,
                   threshold, passed_in, sus_incidents, ranges, k, n, i, j>>

Next ==
    \/ \E has_ts \in BOOLEAN, ts \in Times, addr \in IPs \cup {None},
          event \in EventTypes :
           ReadLine(has_ts, ts, addr, event)
    \/ \E mm \in Minutes, th \in Thresholds : CallBruteForce(mm, th)
    \/ ForIp
    \/ WhileOuter
    \/ WhileInner
    \/ IfCount
    \/ Return
    \/ Aggregate

Spec == Init /\ [][Next]_vars

\* the steps of brute_force
Detect == ForIp \/ WhileOuter \/ WhileInner \/ IfCount \/ Return
(* ---- the stepwise run agrees with brute_force as a function ---- *)
StepwiseAgrees ==
    pc \in {"returned", "done"} =>
        sus_incidents = brute_force(ip_order, passed_in, 0, max_minutes, threshold)

(* ======================= properties ======================= *)

\* an isoformat() value read back as seconds
FromIso(f) == f[1] * 86400 + f[2] * 3600 + f[3] * 60 + f[4]

\* order of two isoformat() values, field by field
IsoLeq(f, g) ==
    \/ f = g
    \/ \E m \in 1..4 : f[m] < g[m] /\ \A q \in 1..(m - 1) : f[q] = g[q]

IsAscending(s) == \A m \in 1..(Len(s) - 1) : s[m] <= s[m + 1]

Incidents == 1..Len(sus_incidents)
Lo(a) == ranges[a][1]
Hi(a) == ranges[a][2]
\* the (sorted) list of the origin of incident a
ListOf(a) == per_ip_timestamps[sus_incidents[a].ip]

\* C1: for threshold >= 1 the incidents of one origin cover index ranges
\* [i,j] of its sorted timestamps that are pairwise disjoint and listed in
\* increasing index order, hence in increasing order of first.
C1_DisjointOrdered ==
    threshold >= 1 =>
        \A a, b \in Incidents :
            (a < b /\ sus_incidents[a].ip = sus_incidents[b].ip) =>
                /\ 0 <= Lo(a) /\ Lo(a) <= Hi(a)
                /\ Hi(a) < Lo(b)
                /\ Hi(b) < Len(ListOf(b))
                /\ IsoLeq(sus_incidents[a].first, sus_incidents[b].first)

\* two incidents of the same origin have been emitted
C1_Witness ==
    /\ threshold >= 1
    /\ \E a, b \in Incidents :
           /\ a < b
           /\ sus_incidents[a].ip = sus_incidents[b].ip
           /\ Hi(a) > Lo(a)

\* C2: every incident has count = j - i + 1 = the number of sorted indices
\* in [i,j], count >= threshold, first = the timestamp at i, last = the
\* timestamp at j, and last >= first.
C2_IncidentFields ==
    \A a \in Incidents :
        LET inc == sus_incidents[a] IN
        /\ inc.count = Hi(a) - Lo(a) + 1
        /\ inc.count =
               Cardinality({m \in 0..(Len(ListOf(a)) - 1) : Lo(a) <= m /\ m <= Hi(a)})
        /\ inc.count >= threshold
        /\ FromIso(inc.first) = At(ListOf(a), Lo(a))
        /\ FromIso(inc.last) = At(ListOf(a), Hi(a))
        /\ IsoLeq(inc.first, inc.last)

\* an incident of several timestamps with last later than first
C2_Witness ==
    \E a \in Incidents :
        /\ sus_incidents[a].count >= 2
        /\ sus_incidents[a].first # sus_incidents[a].last
        /\ threshold >= 2

\* C3: for a window > 0 every incident is a maximal cluster anchored at its
\* first timestamp: each member is at most window after first (inclusive),
\* and the next sorted timestamp, if any, is more than window after first.
C3_MaximalCluster ==
    max_minutes > 0 =>
        \A a \in Incidents :
            /\ \A m \in Lo(a)..Hi(a) :
                   At(ListOf(a), m) - At(ListOf(a), Lo(a))
                       <= max_minutes * SecondsPerMinute
            /\ Hi(a) + 1 < Len(ListOf(a)) =>
                   At(ListOf(a), Hi(a) + 1) - At(ListOf(a), Lo(a))
                       > max_minutes * SecondsPerMinute

\* an incident whose last member is exactly window after first and which is
\* followed by a later timestamp of the same origin
C3_Witness ==
    /\ max_minutes > 0
    /\ \E a \in Incidents :
           /\ At(ListOf(a), Hi(a)) - At(ListOf(a), Lo(a))
                  = max_minutes * SecondsPerMinute
           /\ Hi(a) + 1 < Len(ListOf(a))

Returned == pc \in {"returned", "done"}

\* the number of incidents brute_force returns for the timeline of this run
\* under threshold th
NumIncidents(th) == Len(brute_force(ip_order, passed_in, 0, max_minutes, th))

\* C4: for a fixed timeline and window, a larger threshold (both >= 1) never
\* yields more incidents than a smaller one.
C4_ThresholdMonotone ==
    (Returned /\ threshold >= 1) =>
        \A th \in Thresholds :
            /\ th > threshold => NumIncidents(th) <= Len(sus_incidents)
            /\ (1 <= th /\ th < threshold) => Len(sus_incidents) <= NumIncidents(th)

\* a run with two incidents for which a larger threshold leaves exactly one
C4_Witness ==
    /\ Returned
    /\ threshold >= 1
    /\ Len(sus_incidents) = 2
    /\ \E th \in Thresholds : th > threshold /\ NumIncidents(th) = 1

Running == pc \in {"for_ip", "while_i", "while_j", "if_count"}

\* what is left to do, most significant first: origins, the for-loop head,
\* anchors of this origin, the stage of this pass, room for j
Rank ==
    IF ~Running THEN <<0, 0, 0, 0, 0>>
    ELSE IF pc = "for_ip" THEN <<Len(ip_order) - k, 1, 0, 0, 0>>
    ELSE <<Len(ip_order) - k, 0, n - i,
           CASE pc = "while_i" -> 2 [] pc = "while_j" -> 1 [] OTHER -> 0,
           IF pc = "while_j" THEN n - j ELSE 0>>

LexLess(f, g) ==
    \E m \in 1..5 : f[m] < g[m] /\ \A q \in 1..(m - 1) : f[q] = g[q]

\* C5: brute_force terminates for every window (zero and negative included)
\* and every threshold: while it runs a step is always possible, every step
\* lowers a rank that cannot fall below zero, each pass of the outer loop
\* raises i by at least 1 and never beyond n, and at i >= n the loop ends.
C5_Terminates ==
    /\ [](Running => (ENABLED Detect /\ \A m \in 1..5 : Rank[m] >= 0))
    /\ [][Running => LexLess(Rank', Rank)]_vars
    /\ [][pc = "if_count" => (i' >= i + 1 /\ i' <= n)]_vars
    /\ [][(pc = "while_i" /\ i >= n) => pc' = "for_ip"]_vars

\* brute_force has returned from a timeline with a repeated timestamp under a
\* non-positive window
C5_Witness ==
    /\ pc = "returned"
    /\ max_minutes <= 0
    /\ \E a \in IPs : Len(per_ip_timestamps[a]) >= 2
                      /\ per_ip_timestamps[a][1] = per_ip_timestamps[a][2]

\* C6: with threshold <= 0 or max_minutes <= 0 brute_force produces no
\* incident (the configuration is rejected before detection runs).
C6_ConfigRejected ==
    (pc # "read" /\ (threshold <= 0 \/ max_minutes <= 0)) =>
        /\ sus_incidents = <<>>
        /\ pc \notin {"while_i", "while_j", "if_count"}

\* the sum of the counts of the incidents of origin a among the first m
RECURSIVE SumCounts(_, _)
SumCounts(a, m) ==
    IF m = 0 THEN 0
    ELSE SumCounts(a, m - 1)
         + (IF sus_incidents[m].ip = a THEN sus_incidents[m].count ELSE 0)

IncidentTotal(a) == SumCounts(a, Len(sus_incidents))

\* position at which origin a was first observed
FirstSeen(a) == CHOOSE m \in 1..Len(ip_order) : ip_order[m] = a

\* descending by total, equal totals in first-observed order, no origin twice
Ranked(t) ==
    \A a, b \in 1..Len(t) :
        a < b =>
            /\ t[a].ip # t[b].ip
            /\ t[a].total >= t[b].total
            /\ t[a].total = t[b].total => FirstSeen(t[a].ip) < FirstSeen(t[b].ip)

\* C7 as stated: the ranked summary lists each origin with the sum of the
\* counts of its incidents, descending, equal totals in first-observed order.
C7_IncidentTotalsRanked ==
    pc = "done" =>
        /\ \A m \in 1..Len(top_attackers) :
               top_attackers[m].total = IncidentTotal(top_attackers[m].ip)
        /\ \A a \in Incidents :
               \E m \in 1..Len(top_attackers) :
                   top_attackers[m].ip = sus_incidents[a].ip
        /\ Ranked(top_attackers)

\* C7 amended: with at least one incident the summary lists each origin that
\* has an incident with the sum of its incidents' counts; with no incident
\* it lists every origin with its raw number of failed attempts; either way
\* descending by total, equal totals in first-observed order.
C7_TotalsOrRawCountsRanked ==
    pc = "done" =>
        /\ \A m \in 1..Len(top_attackers) :
               /\ \E q \in 1..Len(ip_order) : ip_order[q] = top_attackers[m].ip
               /\ top_attackers[m].total =
                      IF sus_incidents # <<>>
                      THEN IncidentTotal(top_attackers[m].ip)
                      ELSE Len(per_ip_timestamps[top_attackers[m].ip])
        /\ \A q \in 1..Len(ip_order) :
               (sus_incidents = <<>> \/ IncidentTotal(ip_order[q]) > 0) =>
                   \E m \in 1..Len(top_attackers) : top_attackers[m].ip = ip_order[q]
        /\ sus_incidents # <<>> =>
               \A m \in 1..Len(top_attackers) :
                   \E a \in Incidents : sus_incidents[a].ip = top_attackers[m].ip
        /\ Ranked(top_attackers)

\* two origins with incidents and equal totals have been ranked
C7_Witness ==
    /\ pc = "done"
    /\ sus_incidents # <<>>
    /\ Len(top_attackers) = 2
    /\ top_attackers[1].total = top_attackers[2].total

InPass == pc \in {"while_i", "while_j", "if_count"}

\* C8 as stated: within one origin's pass j is never set below its previous
\* value (the first assignment j = 0 of the pass aside).
C8_JNeverDecreases ==
    [][(InPass /\ ~(pc = "while_i" /\ i = 0)) => j' >= j]_vars

\* the index ii of the current origin belongs to an incident
Consumed(ii) ==
    \E a \in Incidents : sus_incidents[a].ip = ip /\ Lo(a) <= ii /\ ii <= Hi(a)

\* C8 amended: j is reset to i at the start of every pass of the outer loop
\* and may thereby fall below its previous value, but it is never below i,
\* and the cluster end reached when the inner loop has finished is never
\* below the cluster end of an earlier anchor of the same origin.
C8_ClusterEndMonotone ==
    /\ InPass /\ pc # "while_i" => i <= j /\ j < n
    /\ pc = "if_count" =>
           \A a \in 0..(i - 1) : ClusterEnd(times, a, a, n, max_minutes) <= j

\* the inner loop has finished for an anchor that follows a skipped anchor
\* whose cluster reached beyond it
C8_Witness ==
    /\ pc = "if_count"
    /\ i > 0
    /\ ~Consumed(i - 1)
    /\ ClusterEnd(times, i - 1, i - 1, n, max_minutes) > i

Occurrences(s, t) == Cardinality({m \in 1..Len(s) : s[m] = t})

Finished(q) == Returned \/ (pc \notin {"read"} /\ q < k + 1)

InSomeIncident(a, m) ==
    \E x \in Incidents : sus_incidents[x].ip = a /\ Lo(x) <= m /\ m <= Hi(x)

\* timestamps of s at indices >= m that are at most the window after s[m]
DenseFrom(s, m) ==
    Cardinality({x \in m..(Len(s) - 1) :
                     At(s, x) - At(s, m) <= max_minutes * SecondsPerMinute})

\* C10: once an origin is finished, every sorted index that belongs to no
\* incident anchors fewer than threshold timestamps within the window.
C10_NoDenseAnchorMissed ==
    \A q \in 1..Len(ip_order) :
        Finished(q) =>
            \A m \in 0..(Len(per_ip_timestamps[ip_order[q]]) - 1) :
                ~InSomeIncident(ip_order[q], m) =>
                    DenseFrom(per_ip_timestamps[ip_order[q]], m) < threshold

\* a finished origin whose first index was skipped and whose later indices
\* form an incident
C10_Witness ==
    \E q \in 1..Len(ip_order) :
        /\ Finished(q)
        /\ ~InSomeIncident(ip_order[q], 0)
        /\ \E x \in Incidents :
               sus_incidents[x].ip = ip_order[q] /\ Lo(x) = 1 /\ Hi(x) = 2

TypeOK ==
    /\ pc \in {"read", "for_ip", "while_i", "while_j", "if_count", "returned", "done"}
    /\ lines_read \in 0..MaxLines
    /\ Len(sus_incidents) = Len(ranges)
    /\ i >= 0 /\ j >= 0 /\ n >= 0
====
